---- MODULE Spec2Model ----
(***************************************************************************)
(* A model of ctm2git.py: the cached fetcher (url_retrieve_cached), the    *)
(* setup.ini parser (parse_setup_ini), the sourcelist builder              *)
(* (ctm_to_sourcelist) and the repository builder (sourcelist_to_repo).    *)
(*                                                                         *)
(* Strings the program takes apart (URLs, file names, versions) are        *)
(* sequences of tokens; the string is the concatenation of its tokens.     *)
(* Strings the program only compares or copies are TLA+ strings.           *)
(***************************************************************************)
EXTENDS Integers, Sequences, FiniteSets, TLC

VARIABLES
    \* parse_setup_ini
    contents,       \* the text handed to parse_setup_ini, a sequence of lines
    package,        \* args.package[0]
    result,         \* what parse_setup_ini returned or raised
    \* url_retrieve_cached
    cache,          \* CACHE_DIR: cache file name -> file content
    fetches,        \* the calls of url_retrieve_cached made so far, in order
    \* ctm_to_sourcelist
    lpc,            \* position of ctm_to_sourcelist
    since,          \* args.since: NoSince or a version
    visited,        \* per snapshot visited: its circa and what the parser returned
    lsources,       \* the dict sources of ctm_to_sourcelist
    printed,        \* the lines printed on stdout
    \* sourcelist_to_repo
    rpc,            \* position of sourcelist_to_repo
    allow_empty,    \* args.allow_empty
    rsources,       \* the dict sources of sourcelist_to_repo, in insertion order
    dotgit,         \* whether ./.git exists
    commits,        \* the history of the repository in ./.git, oldest first
    tree,           \* the working directory without .git: the paths of its files
    \* what the properties refer to
    rerun,          \* whether an earlier run of sourcelist_to_repo has ended
    start,          \* the cache, .git, commits and tree when this run began
    sentinelRead,   \* whether this run read a line with DEFAULT_AUTHOR
    inited,         \* whether this run ran git init
    iters           \* the iterations of the replay loop of this run

lvars == <<lpc, visited, lsources, printed>>
pvars == <<contents, result>>
rvars == <<rpc, allow_empty, rsources, dotgit, commits, tree, rerun, start,
           sentinelRead, inited, iters>>
vars == <<contents, package, result, cache, fetches, since, lvars, rvars>>

-----------------------------------------------------------------------------
(* Bounds of the model *)

MaxLines == 4
MaxFetches == 4
MaxSnapshots == 3

-----------------------------------------------------------------------------
(* Strings as token sequences *)

\* str.endswith(ext), for a string whose tokens split off its extension
EndsWith(name, ext) == name # <<>> /\ name[Len(name)] = ext

\* DEFAULT_AUTHOR
DEFAULT_AUTHOR == <<"unknown", " <", "unknown@unknown.invalid", ">">>

\* REMOVE_EXTS
REMOVE_EXTS == {".tar.gz", ".tgz", ".tar.bz2", ".tbz", ".tar.lzma", ".tar.xz",
                ".txz", ".tar.zst", ".cpio.gz", ".sig"}

\* The package names of the model: the one asked for and another one.
Packages == {"pkg", "other"}

\* The version strings of the model, "1-1", "1-2" and "2-1".
Versions == {<<"1", "-", "1">>, <<"1", "-", "2">>, <<"2", "-", "1">>}

-----------------------------------------------------------------------------
(* parse_setup_ini *)

\* A name that holds no value yet is <<>>, one that holds x is <<x>>.
Unbound == <<>>
Bound(x) == <<x>>

\* The lines of a setup.ini: tag is what the line starts with, val the rest
\* of the line after the one character that follows the tag (l[2:], l[9:],
\* l[8:]); the rest of a source: line is its whitespace-separated words.
AtLines == {[tag |-> "@", val |-> p] : p \in Packages}
VersionLines == {[tag |-> "version:", val |-> v] : v \in {<<"1", "-", "1">>, <<"2", "-", "1">>}}
SourceLines == {[tag |-> "source:", val |-> w] :
                   w \in {<<"a.tar", "10", "h">>, <<"b.tar">>, <<>>}}
IniLines == AtLines \cup VersionLines \cup SourceLines

\* One iteration of the loop of parse_setup_ini: st holds the locals p, v,
\* the dict parsed, and exc, the exception raised ("" while none is).
ParseLine(st, l, pkg) ==
    IF st.exc # "" THEN st
    ELSE IF l.tag = "@" THEN [st EXCEPT !.p = Bound(l.val)]
    ELSE IF l.tag = "version:" THEN [st EXCEPT !.v = Bound(l.val)]
    ELSE IF l.tag = "source:" THEN
        IF l.val = <<>> THEN [st EXCEPT !.exc = "IndexError"]
        ELSE IF st.p = Unbound THEN [st EXCEPT !.exc = "UnboundLocalError"]
        ELSE IF st.p # Bound(pkg) THEN st
        ELSE IF st.v = Unbound THEN [st EXCEPT !.exc = "UnboundLocalError"]
        ELSE [st EXCEPT !.parsed =
                 [k \in DOMAIN st.parsed \cup {st.v[1]} |->
                     IF k = st.v[1] THEN Head(l.val) ELSE st.parsed[k]]]
    ELSE st

RECURSIVE ParseLoop(_, _, _)
ParseLoop(st, ls, pkg) ==
    IF ls = <<>> THEN st
    ELSE ParseLoop(ParseLine(st, Head(ls), pkg), Tail(ls), pkg)

\* parse_setup_ini(contents, package): [parsed, exc]
parse_setup_ini(ls, pkg) ==
    LET st == ParseLoop([p |-> Unbound, v |-> Unbound, parsed |-> <<>>, exc |-> ""],
                        ls, pkg)
    IN  [parsed |-> st.parsed, exc |-> st.exc]

\* The texts of at most n lines
TextsUpTo(n) == UNION {[1..k -> IniLines] : k \in 0..n}

\* result before the call
NotParsed == <<>>

ParseInit ==
    /\ contents \in TextsUpTo(MaxLines)
    /\ package \in {"pkg"}
    /\ result = NotParsed

\* The call parse_setup_ini(f.read(), args.package[0])
Parse ==
    /\ result = NotParsed
    /\ result' = Bound(parse_setup_ini(contents, package))
    /\ UNCHANGED <<contents, package, cache, fetches, since, lvars, rvars>>

-----------------------------------------------------------------------------
(* url_retrieve_cached *)

\* u.replace('http://', '')
StripScheme(u) == SelectSeq(u, LAMBDA t : t # "http://")

\* s.replace(os.path.sep, '_')
FlattenSeps(s) == [i \in 1..Len(s) |-> IF s[i] = "/" THEN "_" ELSE s[i]]

\* cache_fn, relative to CACHE_DIR
CacheName(u) == FlattenSeps(StripScheme(u))

\* What a cache file holds: the body served for the URL it was downloaded
\* from, whole or cut short by a failed transfer.
Body(u, whole) == [of |-> u, whole |-> whole]

\* c with file fn holding b
WithFile(c, fn, b) == [k \in DOMAIN c \cup {fn} |-> IF k = fn THEN b ELSE c[k]]

\* urllib.request.urlretrieve(u, cache_fn): the transfer succeeds, fails
\* before the file is opened, or fails after part of it was written.
UrlRetrieve(c, u) ==
    LET fn == CacheName(u) IN
    { [cache |-> WithFile(c, fn, Body(u, TRUE)), filename |-> Bound(fn),
       downloaded |-> TRUE, diag |-> TRUE, exc |-> ""],
      [cache |-> c, filename |-> Unbound,
       downloaded |-> FALSE, diag |-> FALSE, exc |-> "URLError"],
      [cache |-> WithFile(c, fn, Body(u, FALSE)), filename |-> Unbound,
       downloaded |-> TRUE, diag |-> FALSE, exc |-> "ContentTooShortError"] }

\* The else branch: the file is there and is returned as it is.
FromCache(c, u) ==
    { [cache |-> c, filename |-> Bound(CacheName(u)),
       downloaded |-> FALSE, diag |-> FALSE, exc |-> ""] }

\* A variant that does not look at the cache: it transfers every time.
UrlRetrieveAlways(c, u) == UrlRetrieve(c, u)

\* url_retrieve_cached(u) with the cache directory c: the outcomes, each
\* the cache directory after the call, the file name returned, whether a
\* transfer wrote to the cache, whether 'fetching' was printed, and the
\* exception raised.
url_retrieve_cached(c, u) ==
    IF CacheName(u) \notin DOMAIN c THEN UrlRetrieve(c, u) ELSE FromCache(c, u)

\* The URLs fetched in the model of the cache; the first two share a cache
\* file name.
CacheURLs == { <<"http://", "h", "/", "a">>, <<"http://", "h", "_", "a">>,
               <<"http://", "h", "/", "b">> }

CacheInit ==
    /\ cache = <<>>
    /\ fetches = <<>>

\* One call of url_retrieve_cached, in this run or a later one.
Fetch ==
    /\ Len(fetches) < MaxFetches
    /\ \E u \in CacheURLs : \E o \in url_retrieve_cached(cache, u) :
          /\ cache' = o.cache
          /\ fetches' = Append(fetches,
                 [url |-> u, before |-> cache, after |-> o.cache,
                  filename |-> o.filename, downloaded |-> o.downloaded,
                  diag |-> o.diag, exc |-> o.exc])
    /\ UNCHANGED <<pvars, package, since, lvars, rvars>>

-----------------------------------------------------------------------------
(* calm.version.SetupVersion: the order of version strings *)

Num(t) == CASE t = "1" -> 1 [] t = "2" -> 2 [] OTHER -> 0

\* SetupVersion(a) > SetupVersion(b), the order of the calm library, for
\* versions V-R: by V, then by R
SetupVersionGT(a, b) ==
    \/ Num(a[1]) > Num(b[1])
    \/ Num(a[1]) = Num(b[1]) /\ Num(a[3]) > Num(b[3])

\* sorted(S, key=calm.version.SetupVersion)
RECURSIVE SortedVersions(_)
SortedVersions(S) ==
    IF S = {} THEN <<>>
    ELSE LET least == CHOOSE v \in S : \A w \in S : ~SetupVersionGT(v, w)
         IN  <<least>> \o SortedVersions(S \ {least})

-----------------------------------------------------------------------------
(* ctm_to_sourcelist *)

\* args.since when --since is not given
NoSince == <<>>

\* The i-th URL of the index page, newest first, and its setup.ini
Circa(i) == <<"http://", "ctm", "/", "circa", "/", ToString(2020 - i)>>
SetupIniURL(i) == Circa(i) \o <<"/", "setup.ini">>

\* re.search('^(.*)/setup.ini$', u).group(1)
CircaOf(u) == SubSeq(u, 1, Len(u) - 2)

\* What parse_setup_ini makes of the setup.ini files of the model
ParseTable == [pk \in {"pkg"} |->
                 {parse_setup_ini(t, pk) : t \in TextsUpTo(MaxLines)}]

\* A variant that keeps the version equal to since: >= for >.
KeepsEqualToSince(v, snc) == snc = NoSince \/ ~SetupVersionGT(snc[1], v)

\* The condition of line 80
PassesSince(v, snc) == snc = NoSince \/ SetupVersionGT(v, snc[1])

\* A variant that keeps the URL a version already has: the newest snapshot
\* wins.
KeepFirst(srcs, circa, s, snc) ==
    LET new == {v \in DOMAIN s : PassesSince(v, snc)} IN
    [v \in DOMAIN srcs \cup new |->
        IF v \in DOMAIN srcs THEN srcs[v] ELSE circa \o <<"/", s[v]>>]

\* The loop over the versions of one snapshot, lines 76-81
MergeSnapshot(srcs, circa, s, snc) ==
    LET new == {v \in DOMAIN s : PassesSince(v, snc)} IN
    [v \in DOMAIN srcs \cup new |->
        IF v \in new THEN circa \o <<"/", s[v]>> ELSE srcs[v]]

ListInit ==
    /\ package \in {"pkg"}
    /\ since \in {NoSince} \cup {Bound(v) : v \in Versions}
    /\ cache = <<>>
    /\ lpc = "loop"
    /\ visited = <<>>
    /\ lsources = <<>>
    /\ printed = <<>>

\* One iteration of the loop over the setup.ini URLs: fetch, parse, merge.
\* An exception of the fetch or of the parser ends the program.
ListVisit ==
    /\ lpc = "loop"
    /\ Len(visited) < MaxSnapshots
    /\ LET u == SetupIniURL(Len(visited) + 1) IN
       \E o \in url_retrieve_cached(cache, u) :
          /\ cache' = o.cache
          /\ IF o.exc # ""
             THEN /\ lpc' = "raised"
                  /\ UNCHANGED <<visited, lsources>>
             ELSE \E r \in ParseTable[package] :
                  IF r.exc # ""
                  THEN /\ lpc' = "raised"
                       /\ UNCHANGED <<visited, lsources>>
                  ELSE /\ visited' = Append(visited,
                              [circa |-> CircaOf(u), parsed |-> r.parsed])
                       /\ lsources' = MergeSnapshot(lsources, CircaOf(u),
                                                    r.parsed, since)
                       /\ UNCHANGED lpc
    /\ UNCHANGED <<pvars, package, fetches, since, printed, rvars>>

\* The index page listed no more snapshots: print the sourcelist.
ListEmit ==
    /\ lpc = "loop"
    /\ LET vs == SortedVersions(DOMAIN lsources) IN
       printed' = [i \in 1..Len(vs) |->
                     [v |-> vs[i], url |-> lsources[vs[i]],
                      author |-> DEFAULT_AUTHOR]]
    /\ lpc' = "done"
    /\ UNCHANGED <<pvars, package, cache, fetches, since, visited, lsources,
                   rvars>>

-----------------------------------------------------------------------------
(* sourcelist_to_repo: the inputs of the model *)

\* The versions of the sourcelists, "1-1" and "2-1"
RepoVersions == {<<"1", "-", "1">>, <<"2", "-", "1">>}

\* An author a person has filled in
JaneDoe == <<"Jane Doe", " <", "jane@example.com", ">">>

\* The source archives of the model, by URL.
UrlPlain == <<"http://", "ctm", "/", "circa", "/", "2004", "/", "plain.tar">>
UrlCygport == <<"http://", "ctm", "/", "circa", "/", "64bit", "/", "2019", "/", "cygport.tar">>
UrlOld == <<"http://", "ctm", "/", "circa", "/", "2001", "/", "old.tar">>
UrlGbs == <<"http://", "ctm", "/", "circa", "/", "2003", "/", "gbs.tar">>
UrlNoCirca == <<"http://", "ctm", "/", "plain.tar">>
RepoURLs == {UrlPlain, UrlCygport, UrlOld, UrlGbs, UrlNoCirca}

\* archive.getnames() of the archive served at u: the paths of its files,
\* each a sequence of names, each name a sequence of tokens.
ArchiveAt(u) ==
    CASE u = UrlCygport ->
           { << <<"pkg", "-", "1", "-", "1", ".src">>, <<"pkg", ".cygport">> >>,
             << <<"pkg", "-", "1", "-", "1", ".src">>, <<"pkg", "-", "1", ".tar.xz">> >> }
      [] u = UrlOld ->
           { << <<"pkg", "-", "1", ".tar.gz">> >>,
             << <<"pkg", "-", "1", ".tar.gz", ".sig">> >> }
      [] u = UrlGbs ->
           { << <<"pkg", "-", "1", ".tar.bz2">> >>,
             << <<"pkg", "-", "1", "-", "1">>, <<"pkg", ".mknetrel">> >>,
             << <<"pkg", "-", "1", "-", "1">>, <<"CYGWIN-PATCHES">>, <<"fix", ".patch">> >>,
             << <<"pkg", "-", "1", "-", "1">>, <<"CYGWIN-PATCHES">>, <<"pkg", ".README">> >>,
             << <<"pkg", "-", "1", "-", "1">>, <<"src">>, <<"main", ".c">> >> }
      [] OTHER ->
           { << <<"README">> >>, << <<"pkg", ".c">> >> }

\* The lines of a sourcelist file after l.strip() and l.split(maxsplit=2):
\* version, url and author, or fewer fields.
SourcelistLines ==
    {<<v, u, a>> : v \in RepoVersions, u \in RepoURLs, a \in {JaneDoe, DEFAULT_AUTHOR}}
    \cup {<<>>}

-----------------------------------------------------------------------------
(* sourcelist_to_repo: the working directory *)

\* os.scandir('.') without .git: the names of the entries
Entries(t) == {p[1] : p \in t}

\* entry.is_dir(), os.path.isdir
IsDir(t, n) == \E p \in t : Len(p) > 1 /\ p[1] = n

\* strip: any(re.match(r'[^/]*\.src/', f) for f in archive.getnames())
HasSrcDir(members) == \E m \in members : Len(m) > 1 /\ EndsWith(m[1], ".src")

\* tar -x [--strip-components=1] into the cleaned working directory
Extract(members, strip) ==
    IF strip THEN {Tail(m) : m \in {x \in members : Len(x) > 1}} ELSE members

\* The loop of lines 147-150: os.remove of every entry that ends with one of
\* REMOVE_EXTS; os.remove of a directory raises.
RemoveExts(t) ==
    LET hit == {n \in Entries(t) : \E ext \in REMOVE_EXTS : EndsWith(n, ext)} IN
    IF \E n \in hit : IsDir(t, n)
    THEN [tree |-> t, exc |-> "IsADirectoryError"]
    ELSE [tree |-> {p \in t : p[1] \notin hit}, exc |-> ""]

\* v.rsplit('-')[0]: the version up to its first '-'
RECURSIVE UpToDash(_)
UpToDash(v) ==
    IF v = <<>> \/ Head(v) = "-" THEN <<>> ELSE <<Head(v)>> \o UpToDash(Tail(v))

\* The body of the loop of lines 153-165 for one gbs_src_dir g.
Hoist(t, g, pkg) ==
    IF ~IsDir(t, g) THEN [tree |-> t, exc |-> ""]
    ELSE
      LET mk == <<pkg, ".mknetrel">>
          cp == <<"CYGWIN-PATCHES">>
          \* os.rename(mknetrel, package + '.mknetrel')
          t1 == {IF Len(p) > 1 /\ p[1] = g /\ p[2] = mk THEN Tail(p) ELSE p : p \in t}
          \* os.rename(patch, os.path.basename(patch)) for each patch
          t2 == {IF Len(p) > 2 /\ p[1] = g /\ p[2] = cp THEN Tail(Tail(p)) ELSE p : p \in t1}
      IN  IF <<g, cp>> \in t1
          THEN [tree |-> t1, exc |-> "NotADirectoryError"]
          \* shutil.rmtree(gbs_src_dir)
          ELSE [tree |-> {p \in t2 : p[1] # g}, exc |-> ""]

\* Lines 146-165: what is left of the extracted files.
Normalize(t, pkg, v) ==
    LET r0 == RemoveExts(t)
        r1 == IF r0.exc # "" THEN r0 ELSE Hoist(r0.tree, <<pkg, "-">> \o v, pkg)
        r2 == IF r1.exc # "" THEN r1 ELSE Hoist(r1.tree, <<pkg, "-">> \o UpToDash(v), pkg)
    IN  r2

\* len(list(os.scandir('.'))): .git is an entry like any other
ScandirCount(t, git) == Cardinality(Entries(t)) + (IF git THEN 1 ELSE 0)

\* A variant that leaves .git out of the count.
CountsWithoutGit(t, git, allow) == Cardinality(Entries(t)) <= 1 /\ ~allow

\* A variant that skips whatever allow_empty says.
IgnoresAllowEmpty(t, git, allow) == ScandirCount(t, git) <= 1

\* The guard of lines 169-171: whether the loop continues without a commit
SkipsCommit(t, git, allow) == ScandirCount(t, git) <= 1 /\ ~allow

-----------------------------------------------------------------------------
(* sourcelist_to_repo: the commit *)

\* \d+: the tokens that are runs of digits
IsDigits(t) == t \in {"2001", "2003", "2004", "2019"}

\* re.search(r'circa/(?:64bit/|)([\d/]*)/', url).group(1), as <<group>>, or
\* <<>> when the search finds nothing (and .group raises AttributeError)
CircaGroup(url) ==
    LET n == Len(url)
        \* where the group may start: after 'circa/' and, when there, '64bit/'
        starts == {i \in 3..n + 1 :
                     /\ url[i - 2] = "circa" /\ url[i - 1] = "/"
                     /\ ~(i + 1 <= n /\ url[i] = "64bit" /\ url[i + 1] = "/")}
                  \cup
                  {i \in 5..n + 1 :
                     /\ url[i - 4] = "circa" /\ url[i - 3] = "/"
                     /\ url[i - 2] = "64bit" /\ url[i - 1] = "/"}
        \* the '/' that may end the group that starts at i
        ends(i) == {e \in i..n : /\ url[e] = "/"
                                  /\ \A k \in i..e - 1 : IsDigits(url[k]) \/ url[k] = "/"}
        ok == {i \in starts : ends(i) # {}}
    IN  IF ok = {} THEN <<>>
        ELSE LET i == CHOOSE x \in ok : \A y \in ok : x <= y
                 e == CHOOSE x \in ends(i) : \A y \in ends(i) : y <= x
             IN  <<SubSeq(url, i, e - 1)>>

\* re.search(r'^(.*) <', author).group(1), as <<group>> or <<>>
CommitterName(author) ==
    LET at == {i \in 1..Len(author) : author[i] = " <"} IN
    IF at = {} THEN <<>>
    ELSE <<SubSeq(author, 1, (CHOOSE i \in at : \A j \in at : j <= i) - 1)>>

\* re.search(r'<(.*)>', author).group(1), as <<group>> or <<>>
CommitterEmail(author) ==
    LET lt == {i \in 1..Len(author) : author[i] = " <"}
        gt == {i \in 1..Len(author) : author[i] = ">"}
        ok == {i \in lt : \E j \in gt : j > i}
    IN  IF ok = {} THEN <<>>
        ELSE LET i == CHOOSE x \in ok : \A y \in ok : x <= y
                 j == CHOOSE x \in gt : \A y \in gt : y <= x
             IN  <<SubSeq(author, i + 1, j - 1)>>

\* The tree of HEAD
HeadTree(cs) == IF cs = <<>> THEN {} ELSE cs[Len(cs)].tree

\* A variant that makes no commit for a version the repository has a commit
\* of.
CommitUnlessCommitted(cs, t, git, pkg, v, url, author, allow) ==
    LET circa == CircaGroup(url)
        name == CommitterName(author)
        email == CommitterEmail(author)
    IN  IF ~git THEN [commits |-> cs, exc |-> "CalledProcessError"]
        ELSE IF circa = <<>> \/ name = <<>> \/ email = <<>>
        THEN [commits |-> cs, exc |-> "AttributeError"]
        ELSE IF \E i \in 1..Len(cs) : cs[i].v = v
        THEN [commits |-> cs, exc |-> ""]
        ELSE IF t = HeadTree(cs) /\ ~allow
        THEN [commits |-> cs, exc |-> "CalledProcessError"]
        ELSE [commits |-> Append(cs,
                 [v |-> v, author |-> author,
                  committer |-> <<name[1], email[1]>>,
                  date |-> circa[1] \o <<" UTC">>,
                  message |-> <<pkg, v, circa[1]>>,
                  tree |-> t]),
              exc |-> ""]

\* Lines 173-187 in the working directory t: git add, the metadata, git commit.
\* git add fails outside a repository; git commit fails with nothing to
\* commit unless --allow-empty is given.
Commit(cs, t, git, pkg, v, url, author, allow) ==
    LET circa == CircaGroup(url)
        name == CommitterName(author)
        email == CommitterEmail(author)
    IN  IF ~git THEN [commits |-> cs, exc |-> "CalledProcessError"]
        ELSE IF circa = <<>> \/ name = <<>> \/ email = <<>>
        THEN [commits |-> cs, exc |-> "AttributeError"]
        ELSE IF t = HeadTree(cs) /\ ~allow
        THEN [commits |-> cs, exc |-> "CalledProcessError"]
        ELSE [commits |-> Append(cs,
                 [v |-> v, author |-> author,
                  committer |-> <<name[1], email[1]>>,
                  date |-> circa[1] \o <<" UTC">>,
                  message |-> <<pkg, v, circa[1]>>,
                  tree |-> t]),
              exc |-> ""]

-----------------------------------------------------------------------------
(* sourcelist_to_repo *)

\* A variant that keeps a list, so a version listed twice is there twice.
PutAppends(srcs, v, url, author) ==
    Append(srcs, [v |-> v, url |-> url, author |-> author])

\* sources[v] = source(url, author): a dict keeps the place of a key it has
Put(srcs, v, url, author) ==
    LET e == [v |-> v, url |-> url, author |-> author] IN
    IF \E i \in 1..Len(srcs) : srcs[i].v = v
    THEN [i \in 1..Len(srcs) |-> IF srcs[i].v = v THEN e ELSE srcs[i]]
    ELSE Append(srcs, e)

\* A variant that lets every author through.
NeverRejected(author) == FALSE

\* The test of line 97
IsUnknownAuthor(author) == author = DEFAULT_AUTHOR

\* A variant that makes the checks and runs git init with --since too.
AlwaysFresh(snc) == TRUE

\* The test of line 102
IsFreshRun(snc) == snc = NoSince

\* One iteration of the loop of lines 116-187 for the sourcelist entry e,
\* given the outcome o of url_retrieve_cached, in the working directory t
\* of a repository with the commits cs (git: whether .git is there):
\* the working directory and the commits it leaves, the exception it raised,
\* whether it reached the guard of line 169 and with what working directory.
Replay(o, e, t, cs, git, pkg, allow) ==
    IF o.exc # ""
    THEN [tree |-> t, commits |-> cs, exc |-> o.exc, guarded |-> FALSE, norm |-> {}]
    ELSE
      LET body == o.cache[o.filename[1]] IN
      \* the working directory is cleaned, then the archive is opened
      IF ~body.whole
      THEN [tree |-> {}, commits |-> cs, exc |-> "ReadError", guarded |-> FALSE, norm |-> {}]
      ELSE
        LET members == ArchiveAt(body.of)
            nz == Normalize(Extract(members, HasSrcDir(members)), pkg, e.v)
        IN
        IF nz.exc # ""
        THEN [tree |-> nz.tree, commits |-> cs, exc |-> nz.exc, guarded |-> FALSE, norm |-> {}]
        ELSE IF SkipsCommit(nz.tree, git, allow)
        THEN [tree |-> nz.tree, commits |-> cs, exc |-> "", guarded |-> TRUE, norm |-> nz.tree]
        ELSE
          LET c == Commit(cs, nz.tree, git, pkg, e.v, e.url, e.author, allow) IN
          [tree |-> nz.tree, commits |-> c.commits, exc |-> c.exc, guarded |-> TRUE,
           norm |-> nz.tree]

StartOfRun(c, git, cs, t) == [cache |-> c, dotgit |-> git, commits |-> cs, tree |-> t]

RepoInit ==
    /\ package = "pkg"
    /\ since \in {NoSince, Bound(<<"1", "-", "1">>)}
    /\ allow_empty \in BOOLEAN
    /\ cache = <<>>
    /\ rpc = "read"
    /\ rsources = <<>>
    /\ dotgit \in BOOLEAN
    /\ commits = <<>>
    /\ tree \in {{}, {<< <<"notes", ".txt">> >>}}
    /\ rerun = FALSE
    /\ start = StartOfRun(cache, dotgit, commits, tree)
    /\ sentinelRead = FALSE
    /\ inited = FALSE
    /\ iters = <<>>

\* One iteration of the loop of lines 94-100 over the lines of the sourcelist
RepoReadLine ==
    /\ rpc = "read"
    /\ \E l \in SourcelistLines :
          /\ sentinelRead' = (sentinelRead \/ (Len(l) = 3 /\ l[3] = DEFAULT_AUTHOR))
          /\ IF Len(l) # 3
             THEN rpc' = "raised" /\ UNCHANGED rsources
             ELSE IF IsUnknownAuthor(l[3])
             THEN rpc' = "exit1" /\ UNCHANGED rsources
             ELSE rpc' = "read" /\ rsources' = Put(rsources, l[1], l[2], l[3])
    /\ UNCHANGED <<pvars, package, cache, fetches, since, lvars, allow_empty,
                   dotgit, commits, tree, rerun, start, inited, iters>>

\* The sourcelist has no more lines: lines 102-113
RepoSetup ==
    /\ rpc = "read"
    /\ IF IsFreshRun(since)
       THEN IF dotgit \/ tree # {}
            THEN rpc' = "exit1" /\ UNCHANGED <<dotgit, commits, inited>>
            ELSE \* git init
                 rpc' = "loop" /\ dotgit' = TRUE /\ commits' = <<>> /\ inited' = TRUE
       ELSE rpc' = "loop" /\ UNCHANGED <<dotgit, commits, inited>>
    /\ UNCHANGED <<pvars, package, cache, fetches, since, lvars, allow_empty,
                   rsources, tree, rerun, start, sentinelRead, iters>>

\* One iteration of the loop of lines 116-187
RepoIterate ==
    /\ rpc = "loop"
    /\ Len(iters) < Len(rsources)
    /\ LET e == rsources[Len(iters) + 1] IN
       \E o \in url_retrieve_cached(cache, e.url) :
          LET r == Replay(o, e, tree, commits, dotgit, package, allow_empty) IN
          /\ cache' = o.cache
          /\ tree' = r.tree
          /\ commits' = r.commits
          /\ rpc' = IF r.exc = "" THEN "loop" ELSE "raised"
          /\ iters' = Append(iters,
                 [v |-> e.v, exc |-> r.exc, guarded |-> r.guarded, norm |-> r.norm,
                  made |-> Len(r.commits) - Len(commits), head |-> Len(r.commits)])
    /\ UNCHANGED <<pvars, package, fetches, since, lvars, allow_empty, rsources,
                   dotgit, rerun, start, sentinelRead, inited>>

\* The loop has no more versions: sourcelist_to_repo returns
RepoEnd ==
    /\ rpc = "loop"
    /\ Len(iters) = Len(rsources)
    /\ rpc' = "done"
    /\ UNCHANGED <<pvars, package, cache, fetches, since, lvars, allow_empty,
                   rsources, dotgit, commits, tree, rerun, start, sentinelRead,
                   inited, iters>>

\* The program has ended and is run again in the same working directory,
\* with the same cache directory, with arguments and a sourcelist of its own.
RepoRunAgain ==
    /\ rpc \in {"done", "exit1", "raised"}
    /\ ~rerun
    /\ rerun' = TRUE
    /\ since' \in {NoSince, Bound(<<"1", "-", "1">>)}
    /\ allow_empty' \in BOOLEAN
    /\ rpc' = "read"
    /\ rsources' = <<>>
    /\ start' = StartOfRun(cache, dotgit, commits, tree)
    /\ sentinelRead' = FALSE
    /\ inited' = FALSE
    /\ iters' = <<>>
    /\ UNCHANGED <<pvars, package, cache, fetches, lvars, dotgit, commits, tree>>

-----------------------------------------------------------------------------
(* The specifications *)

ParseIdle == contents = <<>> /\ result = NotParsed
ListIdle == lpc = "idle" /\ visited = <<>> /\ lsources = <<>> /\ printed = <<>>
RepoIdle ==
    /\ rpc = "idle" /\ allow_empty = FALSE /\ rsources = <<>> /\ dotgit = FALSE
    /\ commits = <<>> /\ tree = {} /\ rerun = FALSE
    /\ start = StartOfRun(<<>>, FALSE, <<>>, {})
    /\ sentinelRead = FALSE /\ inited = FALSE /\ iters = <<>>

\* parse_setup_ini on every text of the model
SpecParseInit ==
    ParseInit /\ CacheInit /\ since = NoSince /\ ListIdle /\ RepoIdle
SpecParseNext == Parse
SpecParse == SpecParseInit /\ [][SpecParseNext]_vars

\* url_retrieve_cached, called again and again
SpecCacheInit ==
    CacheInit /\ package = "pkg" /\ since = NoSince /\ ParseIdle /\ ListIdle /\ RepoIdle
SpecCacheNext == Fetch
SpecCache == SpecCacheInit /\ [][SpecCacheNext]_vars

\* ctm_to_sourcelist
SpecListInit == ListInit /\ fetches = <<>> /\ ParseIdle /\ RepoIdle
SpecListNext == ListVisit \/ ListEmit
SpecList == SpecListInit /\ [][SpecListNext]_vars

\* sourcelist_to_repo, run and run again
SpecRepoInit == RepoInit /\ fetches = <<>> /\ ParseIdle /\ ListIdle
SpecRepoNext ==
    RepoReadLine \/ RepoSetup \/ RepoIterate \/ RepoEnd \/ RepoRunAgain
SpecRepo == SpecRepoInit /\ [][SpecRepoNext]_vars

-----------------------------------------------------------------------------
(* Properties of parse_setup_ini *)

\* Line i of the text lies in a block of package pkg: after an '@' line that
\* names pkg, with no other '@' line in between.
InBlockOf(ls, i, pkg) ==
    \E j \in 1..i - 1 :
       /\ ls[j].tag = "@" /\ ls[j].val = pkg
       /\ \A x \in j + 1..i - 1 : ls[x].tag # "@"

\* C7: every key of the dict parse_setup_ini returns is the value of a
\* version: line inside a block of the package asked for, and its value is
\* the first word of a source: line that follows that version: line inside
\* the same block.
C7_BlockScoping ==
    (result # NotParsed /\ result[1].exc = "") =>
       \A k \in DOMAIN result[1].parsed :
          \E i \in 1..Len(contents) :
             /\ contents[i].tag = "version:" /\ contents[i].val = k
             /\ InBlockOf(contents, i, package)
             /\ \E m \in i + 1..Len(contents) :
                   /\ contents[m].tag = "source:"
                   /\ contents[m].val # <<>>
                   /\ Head(contents[m].val) = result[1].parsed[k]
                   /\ \A x \in i + 1..m - 1 : contents[x].tag # "@"

-----------------------------------------------------------------------------
(* Properties of url_retrieve_cached *)

\* C6: a transfer writes to the cache only when no cache file of the URL's
\* name exists; once a fetch of a URL has succeeded, every later fetch of
\* it returns the same file name with no transfer, no message and no
\* exception; and no fetch removes or changes a cache file that exists.
C6_DownloadOnce ==
    /\ \A j \in 1..Len(fetches) :
          /\ fetches[j].downloaded => CacheName(fetches[j].url) \notin DOMAIN fetches[j].before
          /\ fetches[j].diag => fetches[j].downloaded
          /\ \A k \in DOMAIN fetches[j].before :
                k \in DOMAIN fetches[j].after /\ fetches[j].after[k] = fetches[j].before[k]
    /\ \A i \in 1..Len(fetches) : \A j \in i + 1..Len(fetches) :
          (fetches[i].url = fetches[j].url /\ fetches[i].exc = "") =>
             /\ fetches[j].filename = fetches[i].filename
             /\ ~fetches[j].downloaded
             /\ ~fetches[j].diag
             /\ fetches[j].exc = ""

\* A URL is fetched with success, then another URL, then the first again.
C6_Witness ==
    /\ Len(fetches) >= 3
    /\ fetches[1].exc = "" /\ fetches[1].downloaded
    /\ fetches[2].url # fetches[1].url
    /\ fetches[3].url = fetches[1].url
    /\ fetches[3].filename = fetches[1].filename

-----------------------------------------------------------------------------
(* Properties of ctm_to_sourcelist *)

\* The snapshots visited whose parsed setup.ini mentions version v
Mentioning(v) == {i \in 1..Len(visited) : v \in DOMAIN visited[i].parsed}

\* The last visited, so the oldest, of the snapshots that mention v
Oldest(v) == CHOOSE i \in Mentioning(v) : \A j \in Mentioning(v) : j <= i

\* The URL snapshot i gives version v: its base URL, '/', its relative path
UrlFrom(i, v) == visited[i].circa \o <<"/", visited[i].parsed[v]>>

\* C1: the URL kept, and in the end printed, for a version is the one of
\* the oldest snapshot that mentions the version.
C1_OldestWins ==
    /\ \A v \in DOMAIN lsources : lsources[v] = UrlFrom(Oldest(v), v)
    /\ \A n \in 1..Len(printed) : printed[n].url = UrlFrom(Oldest(printed[n].v), printed[n].v)

\* A version printed that two snapshots give different relative paths
C1_Witness ==
    /\ lpc = "done"
    /\ \E n \in 1..Len(printed) :
          \E i, j \in Mentioning(printed[n].v) :
             /\ i < j
             /\ visited[i].parsed[printed[n].v] # visited[j].parsed[printed[n].v]
             /\ printed[n].url = UrlFrom(j, printed[n].v)

\* The versions the visited snapshots mention
Mentioned == UNION {DOMAIN visited[i].parsed : i \in 1..Len(visited)}

\* C2: with --since, a version is printed only if it is greater than since,
\* and every mentioned version greater than since is printed.
C2_SinceFilter ==
    (since # NoSince /\ lpc = "done") =>
       /\ \A n \in 1..Len(printed) : SetupVersionGT(printed[n].v, since[1])
       /\ \A v \in Mentioned :
             SetupVersionGT(v, since[1]) => \E n \in 1..Len(printed) : printed[n].v = v

\* With --since, one mentioned version is printed, and since itself, which
\* is mentioned too, is not.
C2_Witness ==
    /\ since # NoSince /\ lpc = "done"
    /\ since[1] \in Mentioned
    /\ Len(printed) = 1
    /\ \A n \in 1..Len(printed) : printed[n].v # since[1]

-----------------------------------------------------------------------------
(* Properties of sourcelist_to_repo *)

\* Nothing of the cache directory, the repository or the working directory
\* has changed since this run began, and the loop has not been entered.
Untouched ==
    /\ cache = start.cache /\ dotgit = start.dotgit
    /\ commits = start.commits /\ tree = start.tree
    /\ ~inited /\ iters = <<>>

\* cs begins with the commits pre
StartsWith(cs, pre) == Len(pre) <= Len(cs) /\ SubSeq(cs, 1, Len(pre)) = pre

\* The number of commits of version v in cs
CommitsOf(cs, v) == Cardinality({i \in 1..Len(cs) : cs[i].v = v})

\* C3: once a line with the sentinel author has been read, whatever lines
\* came before it, the run has ended with exit(1), has touched nothing and
\* no sentinel author is in the dict or in a commit.
C3_SentinelRejected ==
    /\ sentinelRead => (rpc = "exit1" /\ Untouched)
    /\ \A i \in 1..Len(rsources) : rsources[i].author # DEFAULT_AUTHOR
    /\ \A i \in 1..Len(commits) : commits[i].author # DEFAULT_AUTHOR

\* The sentinel author came after a line that was accepted, in a directory
\* that holds a repository with a commit.
C3_Witness ==
    /\ sentinelRead /\ rpc = "exit1"
    /\ Len(rsources) >= 1
    /\ Len(commits) >= 1

\* C5: without --since, in a directory that holds .git or anything else, the
\* run never gets past the checks and touches nothing; with --since no
\* check ends the run, git init is not run and the commits that were there
\* stay.
C5_FreshRunPreconditions ==
    /\ (since = NoSince /\ (start.dotgit \/ start.tree # {})) =>
          (rpc \in {"read", "exit1", "raised"} /\ Untouched)
    /\ since # NoSince =>
          /\ ~inited /\ dotgit = start.dotgit
          /\ rpc = "exit1" => sentinelRead
          /\ StartsWith(commits, start.commits)

\* A run without --since that the checks ended, in the repository an
\* earlier run made.
C5_Witness ==
    /\ since = NoSince /\ rpc = "exit1" /\ ~sentinelRead
    /\ start.dotgit /\ Len(start.commits) >= 1
    /\ Len(rsources) >= 1

\* C4: an iteration that reaches the guard with nothing in the working
\* directory besides .git, and raises nothing, adds no commit when
\* allow_empty is false, and adds one commit, of that version and with no
\* file in it, when allow_empty is true.
C4_EmptyVersion ==
    \A i \in 1..Len(iters) :
       (iters[i].guarded /\ iters[i].exc = "" /\ iters[i].norm = {}) =>
          IF allow_empty
          THEN /\ iters[i].made = 1
               /\ commits[iters[i].head].v = iters[i].v
               /\ commits[iters[i].head].tree = {}
          ELSE iters[i].made = 0

\* With allow_empty, a version with files was committed and the next one,
\* with none, was committed too.
C4_Witness ==
    /\ allow_empty /\ Len(iters) = 2
    /\ iters[1].made = 1 /\ iters[1].norm # {}
    /\ iters[2].made = 1 /\ iters[2].norm = {} /\ iters[2].guarded

\* C10 as the spec has it: with allow_empty false, a version that leaves
\* exactly one entry besides .git gets no commit, and a version that is
\* committed leaves two entries or more besides .git.
C10_CountsWithoutGit ==
    ~allow_empty =>
       \A i \in 1..Len(iters) :
          /\ (iters[i].guarded /\ Cardinality(Entries(iters[i].norm)) = 1)
                => iters[i].made = 0
          /\ iters[i].made = 1 => Cardinality(Entries(iters[i].norm)) >= 2

\* C10 as amended: the guard counts .git too. With allow_empty false an
\* iteration that reaches the guard is skipped (no commit, no exception)
\* when the working directory holds at most one entry, .git included, and
\* otherwise commits unless a later step raises; so in a repository a
\* version that leaves one entry besides .git is committed.
C10_CountsWithGit ==
    ~allow_empty =>
       \A i \in 1..Len(iters) :
          iters[i].guarded =>
             LET n == Cardinality(Entries(iters[i].norm)) + (IF dotgit THEN 1 ELSE 0) IN
             /\ n <= 1 => (iters[i].made = 0 /\ iters[i].exc = "")
             /\ n >= 2 => (iters[i].made = 1 \/ iters[i].exc # "")
             /\ iters[i].made = 1 => n >= 2

\* With allow_empty false, a version that leaves one entry besides .git was
\* committed.
C10_Witness ==
    /\ ~allow_empty /\ dotgit
    /\ \E i \in 1..Len(iters) :
          /\ iters[i].guarded /\ iters[i].made = 1
          /\ Cardinality(Entries(iters[i].norm)) = 1

\* The iterations of this run that raised nothing
Completed == {i \in 1..Len(iters) : iters[i].exc = ""}

\* C9: the versions of the dict are distinct; as long as no version of this
\* run was skipped by the guard, the repository holds the commits it held
\* when the run began, unchanged, followed by one commit per version
\* replayed without an exception, in the order of the sourcelist; an
\* iteration that raised added none and ended the run.
C9_CommitOrder ==
    /\ \A i, j \in 1..Len(rsources) : rsources[i].v = rsources[j].v => i = j
    /\ \A i \in 1..Len(iters) :
          iters[i].exc # "" => (iters[i].made = 0 /\ i = Len(iters) /\ rpc = "raised")
    /\ (\A i \in Completed : iters[i].made = 1) =>
          /\ StartsWith(commits, start.commits)
          /\ Len(commits) = Len(start.commits) + Cardinality(Completed)
          /\ \A i \in Completed :
                LET c == commits[Len(start.commits) + i] IN
                /\ c.v = rsources[i].v
                /\ c.author = rsources[i].author
                /\ c.tree = iters[i].norm
          /\ rpc = "done" => Len(commits) = Len(start.commits) + Len(rsources)

\* The first version was committed and the second raised: the repository
\* holds the commit of the first.
C9_Witness ==
    /\ rpc = "raised" /\ Len(iters) = 2
    /\ iters[1].made = 1 /\ iters[2].exc # ""
    /\ Len(commits) = 1 /\ commits[1].v = rsources[1].v

\* C8 as the spec has it: a run with --since after an earlier run adds no
\* commit for a version the repository had a commit of when it began.
C8_NotRedone ==
    (rerun /\ since # NoSince) =>
       \A v \in RepoVersions :
          CommitsOf(start.commits, v) >= 1 =>
             CommitsOf(commits, v) = CommitsOf(start.commits, v)

\* C8 as amended: a run with --since keeps the commits that were there and
\* does not look at them: every version of the sourcelist that passes the
\* guard and whose steps raise nothing gets one more commit, whether or not
\* the repository had a commit of it.
C8_RedoneInAppendMode ==
    since # NoSince =>
       /\ StartsWith(commits, start.commits)
       /\ \A i \in 1..Len(iters) :
             /\ CommitsOf(commits, iters[i].v)
                   = CommitsOf(start.commits, iters[i].v) + iters[i].made
             /\ iters[i].made = 1 <=>
                   /\ iters[i].guarded /\ iters[i].exc = ""
                   /\ ~(ScandirCount(iters[i].norm, dotgit) <= 1 /\ ~allow_empty)

\* A run with --since committed a version the earlier run had committed.
C8_Witness ==
    /\ rerun /\ since # NoSince
    /\ \E i \in 1..Len(iters) :
          /\ iters[i].made = 1
          /\ CommitsOf(start.commits, iters[i].v) >= 1

====
